---- MODULE Spec2Model ----
(***************************************************************************)
(* Model of the Vertex AI enrichment stage of dataflow.go: the stateful    *)
(* DoFn GenerateTextFn (Setup / ProcessElement / Teardown), the two        *)
(* identity helpers it calls during Setup, and the prediction call.        *)
(*                                                                         *)
(* Conventions                                                             *)
(*   - a Go error is the sequence of the pieces of its message, in order   *)
(*     (fmt.Errorf's format text and its arguments); the nil error is the  *)
(*     empty sequence NoError;                                             *)
(*   - text that the code transforms character by character (the metadata  *)
(*     body, e-mail addresses, raw HTTP bodies) is a sequence of one       *)
(*     character strings, "" being the empty sequence;                     *)
(*   - prompts and generated texts are never transformed on the emit path  *)
(*     and are TLA+ strings.                                               *)
(***************************************************************************)
EXTENDS Integers, Sequences, FiniteSets, TLC

VARIABLES
    phase,          \* lifecycle of the DoFn instance, driven by the engine
    errorCounts,    \* fn.errorCounts: [made, m]; made = FALSE is Go's nil map
    ErrorCounter,   \* value of the metric vertexai/predict_errors_total
    workerIdentity, \* fn.workerIdentity ("" is the empty sequence)
    identityErr,    \* fn.identityErr (NoError is nil)
    emitted,        \* the records emit() was called with, in call order
    errLogs,        \* per error message: the log lines ProcessElement wrote
    skipLogs,       \* number of "Skipping processing" log lines
    attempts,       \* identity strategies Setup called, in call order
    predictCalls,   \* number of calls of callVertexPredictAPI
    okCalls,        \* history: (prompt, text) of the calls whose prediction succeeded
    okAfterCap,     \* history: per successful call, whether a message had passed the cap
    failCalls,      \* history: per message, number of calls whose prediction failed
    processed,      \* history: number of ProcessElement calls
    mu,             \* fn.mu: the thread holding it, or NoHolder
    threads,        \* per engine thread: where its ProcessElement call stands
    probe,          \* one application of callVertexPredictAPI: input and result
    main,           \* the launcher process: where main() stands and what it did
    other,          \* the fields of the DoFn instance that is not being called
    current         \* which worker's instance the fields above belong to

\* what the engine holds around one DoFn instance
engineVars == <<mu, threads>>

\* what lies outside the DoFn instance being called
outerVars == <<probe, main, other, current>>

vars == <<phase, errorCounts, ErrorCounter, workerIdentity, identityErr, emitted,
          errLogs, skipLogs, attempts, predictCalls, okCalls, okAfterCap, failCalls, processed,
          engineVars, outerVars>>

-----------------------------------------------------------------------------
(* Bounds of the exploration.                                              *)

\* failed ProcessElement calls explored on one worker (the cap needs 22)
MaxFailures == 22
\* successful ProcessElement calls explored on one worker
MaxEmits == 2
\* skipped ProcessElement calls explored on an identity-failed worker
MaxSkips == 3

-----------------------------------------------------------------------------
(* Values.                                                                 *)

NoError == << >>

\* sync.Mutex unlocked
NoHolder == "none"

EmptyString == << >>

\* map[string]int with no entry
EmptyMap == [k \in {} |-> 0]

\* m[k] of a Go map: the zero value when k is absent (also on a nil map)
MapGet(m, k) == IF k \in DOMAIN m THEN m[k] ELSE 0

\* the log lines written so far for message k
LinesOf(logs, k) == IF k \in DOMAIN logs THEN logs[k] ELSE << >>

\* m[k] = v of a Go map
MapPut(m, k, v) == [j \in (DOMAIN m) \cup {k} |-> IF j = k THEN v ELSE m[j]]

\* the first n characters of s: the %.Ns verb
Truncate(s, n) == IF Len(s) <= n THEN s ELSE SubSeq(s, 1, n)

StatusOK == 200

IsSpace(c) == c \in {" ", "\n", "\t", "\r"}

RECURSIVE TrimLeft(_)
TrimLeft(s) == IF s # << >> /\ IsSpace(Head(s)) THEN TrimLeft(Tail(s)) ELSE s

RECURSIVE TrimRight(_)
TrimRight(s) ==
    IF s # << >> /\ IsSpace(s[Len(s)]) THEN TrimRight(SubSeq(s, 1, Len(s) - 1)) ELSE s

\* strings.TrimSpace
TrimSpace(s) == TrimRight(TrimLeft(s))

\* cause of a failed network or credential operation, as the library words it
Cause(env) == <<env.cause>>

-----------------------------------------------------------------------------
(* Identity helpers.                                                       *)

\* getMetadataServiceAccountEmail: env is what the metadata server does
getMetadataServiceAccountEmail(env) ==
    IF env.kind = "doError"
    THEN [email |-> EmptyString,
          err |-> <<"failed to query metadata server (likely not running on GCP): ">>
                  \o Cause(env)]
    ELSE IF env.status # StatusOK
    THEN [email |-> EmptyString,
          err |-> <<"metadata server request failed with status ", ToString(env.status), ": ">>
                  \o env.body]
    ELSE IF env.kind = "readError"
    THEN [email |-> EmptyString,
          err |-> <<"failed to read metadata response body: ">> \o Cause(env)]
    ELSE [email |-> TrimSpace(env.body), err |-> NoError]

\* getADCIdentityEmail: env is what the credentials and tokeninfo do
getADCIdentityEmail(env) ==
    IF env.kind = "noCredentials"
    THEN [email |-> EmptyString,
          err |-> <<"failed to find default credentials: ">> \o Cause(env)]
    ELSE IF env.kind = "tokenError"
    THEN [email |-> EmptyString,
          err |-> <<"failed to get token from token source: ">> \o Cause(env)]
    ELSE IF env.kind = "tokenInvalid"
    THEN [email |-> EmptyString, err |-> <<"retrieved token is invalid or expired">>]
    ELSE IF env.kind = "getError"
    THEN [email |-> EmptyString,
          err |-> <<"failed to query tokeninfo endpoint: ">> \o Cause(env)]
    ELSE IF env.status # StatusOK
    THEN [email |-> EmptyString,
          err |-> <<"tokeninfo request failed with status ", ToString(env.status), ": ">>
                  \o env.body.raw]
    ELSE IF ~env.body.valid
    THEN [email |-> EmptyString,
          err |-> <<"failed to decode tokeninfo response: ">> \o Cause(env)]
    ELSE IF env.body.email = EmptyString
    THEN IF env.body.error_description # EmptyString
         THEN [email |-> EmptyString,
               err |-> <<"tokeninfo returned an error: ">> \o env.body.error_description]
         ELSE [email |-> EmptyString,
               err |-> <<"tokeninfo response did not contain an email address">>]
    ELSE [email |-> env.body.email, err |-> NoError]

-----------------------------------------------------------------------------
(* The prediction call.                                                    *)

\* variant: an empty predictions list reported as a failure
ExtractContent_EmptyIsError(predictions) ==
    IF Len(predictions) = 0
    THEN [text |-> "", err |-> <<"No prediction content from Vertex AI">>]
    ELSE IF predictions[1] = ""
    THEN [text |-> "Empty prediction content from Vertex AI", err |-> NoError]
    ELSE [text |-> predictions[1], err |-> NoError]

\* variant: the last prediction is the one consumed
ExtractContent_LastPrediction(predictions) ==
    IF Len(predictions) = 0
    THEN [text |-> "No prediction content from Vertex AI", err |-> NoError]
    ELSE IF predictions[Len(predictions)] = ""
    THEN [text |-> "Empty prediction content from Vertex AI", err |-> NoError]
    ELSE [text |-> predictions[Len(predictions)], err |-> NoError]

\* lines 303-313: the text taken from a decoded response
ExtractContent(predictions) ==
    IF Len(predictions) = 0
    THEN [text |-> "No prediction content from Vertex AI", err |-> NoError]
    ELSE IF predictions[1] = ""
    THEN [text |-> "Empty prediction content from Vertex AI", err |-> NoError]
    ELSE [text |-> predictions[1], err |-> NoError]

\* variant: a non-200 answer reported by its codes alone
StatusError_NoMessage(status, body) ==
    IF body.valid /\ body.error.message # ""
    THEN <<"vertex ai predict api request failed with status ",
           ToString(status), " (", body.error.status, ")">>
    ELSE <<"vertex ai predict api request failed with status ",
           ToString(status), ": ">> \o body.raw

\* variant: the raw body cut to 100 characters, as in the decode error
StatusError_TruncatedRaw(status, body) ==
    IF body.valid /\ body.error.message # ""
    THEN <<"vertex ai predict api request failed with status ",
           ToString(status), " (", body.error.status, "): ",
           body.error.message>>
    ELSE <<"vertex ai predict api request failed with status ",
           ToString(status), ": ">> \o Truncate(body.raw, 100)

\* lines 279-295: the error built from a non-200 answer
StatusError(status, body) ==
    IF body.valid /\ body.error.message # ""
    THEN <<"vertex ai predict api request failed with status ",
           ToString(status), " (", body.error.status, "): ",
           body.error.message>>
    ELSE <<"vertex ai predict api request failed with status ",
           ToString(status), ": ">> \o body.raw

\* callVertexPredictAPI: env is what the credentials and the endpoint do.
\* The prompt only goes into the request body and into warning texts.
callVertexPredictAPI(prompt, env) ==
    IF env.kind = "clientError"
    THEN [text |-> "",
          err |-> <<"failed to create google default client (ADC issue?): ">> \o Cause(env)]
    ELSE IF env.kind = "sendError"
    THEN [text |-> "",
          err |-> <<"failed to send request to vertex ai predict api: ">> \o Cause(env)]
    ELSE IF env.kind = "readError"
    THEN [text |-> "",
          err |-> <<"failed to read vertex response body: ">> \o Cause(env)]
    ELSE IF env.status # StatusOK
    THEN [text |-> "", err |-> StatusError(env.status, env.body)]
    ELSE IF ~env.body.valid
    THEN [text |-> "",
          err |-> <<"failed to unmarshal vertex response (body: ">>
                  \o Truncate(env.body.raw, 100) \o <<"...): ">> \o Cause(env)]
    ELSE ExtractContent(env.body.predictions)

-----------------------------------------------------------------------------
(* What the environment can do in the explored runs.                       *)

Prompts == {"A", "B"}

MetaEnvs ==
    { [kind |-> "doError", cause |-> "dial tcp: i/o timeout", status |-> 0, body |-> << >>],
      [kind |-> "http", cause |-> "", status |-> 404, body |-> <<"n", "o">>],
      [kind |-> "http", cause |-> "", status |-> 200, body |-> <<" ", "s", "a", "\n">>],
      [kind |-> "http", cause |-> "", status |-> 200, body |-> <<"\n">>] }

NoTokenInfo == [valid |-> FALSE, email |-> << >>, error_description |-> << >>, raw |-> << >>]

AdcEnvs ==
    { [kind |-> "noCredentials", cause |-> "could not find default credentials",
       status |-> 0, body |-> NoTokenInfo],
      [kind |-> "tokenInvalid", cause |-> "", status |-> 0, body |-> NoTokenInfo],
      [kind |-> "http", cause |-> "", status |-> 400,
       body |-> [NoTokenInfo EXCEPT !.raw = <<"b", "a", "d">>]],
      [kind |-> "http", cause |-> "", status |-> 200,
       body |-> [NoTokenInfo EXCEPT !.valid = TRUE, !.error_description = <<"x">>]],
      [kind |-> "http", cause |-> "", status |-> 200,
       body |-> [NoTokenInfo EXCEPT !.valid = TRUE]],
      [kind |-> "http", cause |-> "", status |-> 200,
       body |-> [NoTokenInfo EXCEPT !.valid = TRUE, !.email = <<"u">>]] }

NoApiError == [code |-> 0, message |-> "", status |-> ""]

JsonBody(preds, apiError, raw) ==
    [valid |-> TRUE, predictions |-> preds, error |-> apiError, raw |-> raw]

\* the prediction endpoint's answers offered to ProcessElement
PredictEnvs ==
    { [kind |-> "http", cause |-> "", status |-> 200,
       body |-> JsonBody(<<"a", "b">>, NoApiError, <<"p">>)],
      [kind |-> "http", cause |-> "", status |-> 200,
       body |-> JsonBody(<< >>, NoApiError, <<"e">>)],
      [kind |-> "http", cause |-> "", status |-> 429,
       body |-> JsonBody(<< >>, [code |-> 429, message |-> "quota exceeded",
                                 status |-> "RESOURCE_EXHAUSTED"], <<"q">>)],
      [kind |-> "sendError", cause |-> "connection reset", status |-> 0,
       body |-> JsonBody(<< >>, NoApiError, << >>)] }

\* a response body that is not the JSON the decoder expects
RawBody(raw) ==
    [valid |-> FALSE, predictions |-> << >>, error |-> NoApiError, raw |-> raw]

LongRaw == [i \in 1..101 |-> "x"]

\* the bodies an answer of the prediction endpoint can carry
PredictBodies ==
    { JsonBody(preds, apiError, <<"j">>) :
        preds \in { << >>, <<"">>, <<"a">>, <<"a", "b">>, <<"", "b">> },
        apiError \in { NoApiError,
                       [code |-> 429, message |-> "quota exceeded",
                        status |-> "RESOURCE_EXHAUSTED"],
                       [code |-> 500, message |-> "", status |-> "INTERNAL"] } }
    \cup { RawBody(<<"<", "h">>), RawBody(LongRaw) }

\* everything callVertexPredictAPI can meet: a failing step or an answer
AllPredictEnvs ==
    { [kind |-> k, cause |-> "EOF", status |-> 0, body |-> RawBody(<< >>)] :
        k \in {"clientError", "sendError", "readError"} }
    \cup { [kind |-> "http", cause |-> "invalid character", status |-> st, body |-> b] :
             st \in {200, 204, 429, 500}, b \in PredictBodies }

-----------------------------------------------------------------------------
(* The DoFn.                                                               *)

maxRedundantErrors == 20

\* the engine's threads that may call into one DoFn instance
Threads == {"t1", "t2"}

\* a thread that is not inside ProcessElement
IdleThread == [pc |-> "idle", prompt |-> "", text |-> "", err |-> NoError, count |-> 0]

\* the zero value of the DoFn's unexported fields
InitDoFn ==
    /\ phase = "Uninitialized"
    /\ errorCounts = [made |-> FALSE, m |-> EmptyMap]
    /\ ErrorCounter = 0
    /\ workerIdentity = EmptyString
    /\ identityErr = NoError
    /\ emitted = << >>
    /\ errLogs = EmptyMap
    /\ skipLogs = 0
    /\ attempts = << >>
    /\ predictCalls = 0
    /\ okCalls = << >>
    /\ okAfterCap = << >>
    /\ failCalls = EmptyMap
    /\ processed = 0
    /\ mu = NoHolder

\* no call of callVertexPredictAPI under study
NoProbe == [done |-> TRUE, prompt |-> "", env |-> << >>,
            out |-> [text |-> "", err |-> NoError]]

\* main() not entered
MainNotStarted == [pc |-> "start", exit |-> "none", fatal |-> NoError, log |-> << >>,
                   constructed |-> FALSE, executed |-> FALSE,
                   cfg |-> [project |-> "", region |-> "", temp_location |-> "",
                            staging_location |-> ""]]

\* the workers, each with its own decoded copy of the DoFn
Workers == {"w1", "w2"}

\* a DoFn instance on which nothing has been called
ZeroDoFn ==
    [phase |-> "Uninitialized", errorCounts |-> [made |-> FALSE, m |-> EmptyMap],
     ErrorCounter |-> 0, workerIdentity |-> EmptyString, identityErr |-> NoError,
     emitted |-> << >>, errLogs |-> EmptyMap, skipLogs |-> 0, attempts |-> << >>,
     predictCalls |-> 0, okCalls |-> << >>, okAfterCap |-> << >>,
     failCalls |-> EmptyMap, processed |-> 0]

InitOuter ==
    /\ main = MainNotStarted
    /\ other = ZeroDoFn
    /\ current = "w1"

Init ==
    /\ InitDoFn
    /\ threads = [t \in Threads |-> IdleThread]
    /\ probe = NoProbe
    /\ InitOuter

\* variant: the fallback is called whatever the metadata server answered
ResolveAttempts_AlwaysBoth(metaEnv, adcEnv) ==
    LET first == getMetadataServiceAccountEmail(metaEnv) IN
    << [strategy |-> "metadata", email |-> first.email, err |-> first.err],
       [strategy |-> "adc", email |-> getADCIdentityEmail(adcEnv).email,
        err |-> getADCIdentityEmail(adcEnv).err] >>

\* Setup, lines 184-189: the strategies called, in order, with their results
ResolveAttempts(metaEnv, adcEnv) ==
    LET first == getMetadataServiceAccountEmail(metaEnv) IN
    IF first.err # NoError
    THEN << [strategy |-> "metadata", email |-> first.email, err |-> first.err],
            [strategy |-> "adc", email |-> getADCIdentityEmail(adcEnv).email,
             err |-> getADCIdentityEmail(adcEnv).err] >>
    ELSE << [strategy |-> "metadata", email |-> first.email, err |-> first.err] >>

\* Setup, lines 185-189: the (email, err) pair left after the fallback
ResolveIdentity(metaEnv, adcEnv) ==
    LET tried == ResolveAttempts(metaEnv, adcEnv)
        last == tried[Len(tried)]
    IN [email |-> last.email, err |-> last.err]

\* variant: Setup does not make the map
Setup_MapNotMade(metaEnv, adcEnv) ==
    /\ phase = "Uninitialized"
    /\ attempts' = attempts \o ResolveAttempts(metaEnv, adcEnv)
    /\ LET r == ResolveIdentity(metaEnv, adcEnv) IN
       IF r.err # NoError
       THEN /\ identityErr' = <<"failed to determine worker identity: ">> \o r.err
            /\ UNCHANGED workerIdentity
       ELSE /\ workerIdentity' = r.email
            /\ UNCHANGED identityErr
    /\ phase' = "Ready"
    /\ UNCHANGED <<errorCounts, ErrorCounter, emitted, errLogs, skipLogs, predictCalls,
                   okCalls, okAfterCap, failCalls, processed, engineVars, outerVars>>

\* variant: an unresolved identity fails the worker instead of being stored
Setup_FailsWorker(metaEnv, adcEnv) ==
    /\ phase = "Uninitialized"
    /\ errorCounts' = [made |-> TRUE, m |-> EmptyMap]
    /\ attempts' = attempts \o ResolveAttempts(metaEnv, adcEnv)
    /\ LET r == ResolveIdentity(metaEnv, adcEnv) IN
       IF r.err # NoError
       THEN /\ phase' = "Crashed"
            /\ UNCHANGED <<workerIdentity, identityErr>>
       ELSE /\ workerIdentity' = r.email
            /\ phase' = "Ready"
            /\ UNCHANGED identityErr
    /\ UNCHANGED <<ErrorCounter, emitted, errLogs, skipLogs, predictCalls, okCalls, okAfterCap,
                   failCalls, processed, engineVars, outerVars>>

Setup(metaEnv, adcEnv) ==
    /\ phase = "Uninitialized"
    /\ errorCounts' = [made |-> TRUE, m |-> EmptyMap]
    /\ attempts' = attempts \o ResolveAttempts(metaEnv, adcEnv)
    /\ LET r == ResolveIdentity(metaEnv, adcEnv) IN
       IF r.err # NoError
       THEN /\ identityErr' = <<"failed to determine worker identity: ">> \o r.err
            /\ UNCHANGED workerIdentity
       ELSE /\ workerIdentity' = r.email
            /\ UNCHANGED identityErr
    /\ phase' = "Ready"
    /\ UNCHANGED <<ErrorCounter, emitted, errLogs, skipLogs, predictCalls, okCalls, okAfterCap,
                   failCalls, processed, engineVars, outerVars>>

\* variant: the gate is never taken
IdentityFailed_Ignored == FALSE

\* variant: the gate also closes once any prediction error was recorded
IdentityFailed_OrEarlierErrors == identityErr # NoError \/ errorCounts.m # EmptyMap

\* line 202: the identity gate
IdentityFailed == identityErr # NoError

\* variant: the metric is incremented only for failures that are logged
IncOnFailure_OnlyWhenLogged(counter) ==
    IF counter < maxRedundantErrors THEN counter + 1 ELSE counter

\* line 211: ErrorCounter.Inc(ctx, 1)
IncOnFailure(counter) == counter + 1

\* variant: one count shared by all messages
ErrorString_Global(err) == <<"error">>

\* variant: counts kept per identity and message
ErrorString_WithIdentity(err) == err \o workerIdentity

\* line 212: the key of errorCounts
ErrorString(err) == err

\* variant: the cap test is off by one
BelowCap_Inclusive(count) == count <= maxRedundantErrors

\* line 215
BelowCap(count) == count < maxRedundantErrors

\* variant: the warning branch also taken above the cap
AtCap_OrAbove(count) == count >= maxRedundantErrors

\* line 219
AtCap(count) == count = maxRedundantErrors

\* variant: the log reports the count found instead of the new one
ErrorLine_OldCount(count) ==
    [severity |-> "ERROR", count |-> count, identity |-> workerIdentity]

\* line 217: the error log line
ErrorLine(count) ==
    [severity |-> "ERROR", count |-> count + 1, identity |-> workerIdentity]

\* line 220: the cap warning
CapLine(count) ==
    [severity |-> "WARNING", count |-> maxRedundantErrors, identity |-> workerIdentity]

\* variant: the count starts over once the cap warning is given
StoredAfter_Restart(count) == IF count = maxRedundantErrors THEN 0 ELSE count + 1

\* lines 218 and 221: the stored count after a logged failure
StoredAfter(count) == count + 1

\* whether some message has failed more often than the cap
PastCap == \E m \in DOMAIN failCalls : failCalls[m] > maxRedundantErrors

\* variant: no generated text once a message has passed the cap
Result_BlankAfterCap(prompt, text) ==
    [Prompt |-> prompt, GeneratedText |-> IF PastCap THEN "" ELSE text]

\* variant: the two fields are filled the wrong way round
Result_Swapped(prompt, text) == [Prompt |-> text, GeneratedText |-> prompt]

\* line 228: the record handed to emit
Result(prompt, text) == [Prompt |-> prompt, GeneratedText |-> text]

\* variant: the skip line is written once per worker
SkipElement_LoggedOnce ==
    /\ processed - predictCalls < MaxSkips
    /\ skipLogs' = IF skipLogs = 0 THEN 1 ELSE skipLogs
    /\ UNCHANGED <<errorCounts, ErrorCounter, emitted, errLogs, predictCalls,
                   okCalls, okAfterCap, failCalls>>

\* lines 202-205
SkipElement ==
    /\ processed - predictCalls < MaxSkips
    /\ skipLogs' = skipLogs + 1
    /\ UNCHANGED <<errorCounts, ErrorCounter, emitted, errLogs, predictCalls,
                   okCalls, okAfterCap, failCalls>>

\* lines 210-225
FailElement(err) ==
    LET errorString == ErrorString(err)
        count == MapGet(errorCounts.m, errorString)
        lines == LinesOf(errLogs, err)
    IN
    /\ predictCalls - Len(okCalls) < MaxFailures
    /\ failCalls' = MapPut(failCalls, err, MapGet(failCalls, err) + 1)
    /\ \/ /\ ErrorCounter' = IncOnFailure(ErrorCounter)
          /\ IF BelowCap(count)
             THEN /\ errLogs' = MapPut(errLogs, err, Append(lines, ErrorLine(count)))
                  /\ IF errorCounts.made
                     THEN /\ errorCounts' = [errorCounts EXCEPT
                                               !.m = MapPut(@, errorString, StoredAfter(count))]
                          /\ UNCHANGED phase
                     ELSE /\ phase' = "Crashed"
                          /\ UNCHANGED errorCounts
             ELSE IF AtCap(count)
             THEN /\ errLogs' = MapPut(errLogs, err, Append(lines, CapLine(count)))
                  /\ errorCounts' = [errorCounts EXCEPT
                                       !.m = MapPut(@, errorString, StoredAfter(count))]
                  /\ UNCHANGED phase
             ELSE UNCHANGED <<errLogs, errorCounts, phase>>
       \/ \* line 211 on the zero beam.Counter of an instance without Setup:
          \* the SDK's Inc may panic before the map is reached
          /\ ~errorCounts.made
          /\ phase' = "Crashed"
          /\ UNCHANGED <<ErrorCounter, errLogs, errorCounts>>
    /\ UNCHANGED <<emitted, skipLogs, okCalls, okAfterCap>>


\* variant: emit is called twice for one record
EmitElement_Twice(prompt, text) ==
    /\ Len(okCalls) < MaxEmits
    /\ emitted' = emitted \o <<Result(prompt, text), Result(prompt, text)>>
    /\ okCalls' = Append(okCalls, <<prompt, text>>)
    /\ okAfterCap' = Append(okAfterCap, PastCap)
    /\ UNCHANGED <<errorCounts, ErrorCounter, errLogs, skipLogs, failCalls, phase>>

\* variant: the newest record is put first
EmitElement_Prepend(prompt, text) ==
    /\ Len(okCalls) < MaxEmits
    /\ emitted' = <<Result(prompt, text)>> \o emitted
    /\ okCalls' = Append(okCalls, <<prompt, text>>)
    /\ okAfterCap' = Append(okAfterCap, PastCap)
    /\ UNCHANGED <<errorCounts, ErrorCounter, errLogs, skipLogs, failCalls, phase>>

\* line 228
EmitElement(prompt, text) ==
    /\ Len(okCalls) < MaxEmits
    /\ emitted' = Append(emitted, Result(prompt, text))
    /\ okCalls' = Append(okCalls, <<prompt, text>>)
    /\ okAfterCap' = Append(okAfterCap, PastCap)
    /\ UNCHANGED <<errorCounts, ErrorCounter, errLogs, skipLogs, failCalls, phase>>

\* lines 201-229: what one call does, on whatever instance it is made
ProcessElementBody(prompt, env) ==
    /\ processed' = processed + 1
    /\ IF IdentityFailed
       THEN /\ SkipElement
            /\ UNCHANGED <<phase, predictCalls>>
       ELSE LET r == callVertexPredictAPI(prompt, env) IN
            /\ predictCalls' = predictCalls + 1
            /\ IF r.err # NoError
               THEN FailElement(r.err)
               ELSE EmitElement(prompt, r.text)
    /\ UNCHANGED <<workerIdentity, identityErr, attempts, engineVars, outerVars>>

\* the engine calls ProcessElement on an instance after its Setup
ProcessElement(prompt, env) ==
    /\ phase = "Ready"
    /\ ProcessElementBody(prompt, env)

\* variant: Teardown clears the identity fields
Teardown_ClearsIdentity ==
    /\ phase = "Ready"
    /\ phase' = "TornDown"
    /\ workerIdentity' = EmptyString
    /\ identityErr' = NoError
    /\ UNCHANGED <<errorCounts, ErrorCounter, emitted, errLogs, skipLogs, attempts,
                   predictCalls, okCalls, okAfterCap, failCalls, processed,
                   engineVars, outerVars>>

\* lines 317-319
Teardown ==
    /\ phase = "Ready"
    /\ phase' = "TornDown"
    /\ UNCHANGED <<errorCounts, ErrorCounter, workerIdentity, identityErr, emitted,
                   errLogs, skipLogs, attempts, predictCalls, okCalls, okAfterCap, failCalls,
                   processed, engineVars, outerVars>>

-----------------------------------------------------------------------------
(* ProcessElement step by step, for calls that overlap on one instance.    *)
(* A thread's record holds the call's locals: p.Prompt, result, err and    *)
(* count; pc says which statement it executes next.                        *)

\* what the engine offers while calls overlap
ConcMetaEnvs == {env \in MetaEnvs : env.kind = "doError" \/ Len(env.body) > 1}

ConcAdcEnvs == {env \in AdcEnvs : env.kind = "noCredentials"}

ConcPredictEnvs == {env \in PredictEnvs : env.kind = "http" /\ env.body.predictions # << >>}
                   \cup {env \in PredictEnvs : env.kind = "http" /\ env.status # StatusOK}

AllIdle == \A t \in Threads : threads[t].pc = "idle"

\* variant: fn.mu is not taken
CanLock_NoMutex(t) == TRUE

\* line 213: Lock returns only when no thread holds fn.mu
CanLock(t) == mu = NoHolder

\* lines 201-208: the gate, then the prediction call
ConcCall(t, prompt, env) ==
    /\ phase = "Ready"
    /\ threads[t].pc = "idle"
    /\ processed' = processed + 1
    /\ IF IdentityFailed
       THEN /\ processed - predictCalls < MaxSkips
            /\ skipLogs' = skipLogs + 1
            /\ UNCHANGED <<threads, predictCalls, okCalls, okAfterCap, failCalls>>
       ELSE LET r == callVertexPredictAPI(prompt, env) IN
            /\ predictCalls' = predictCalls + 1
            /\ threads' = [threads EXCEPT ![t] =
                             [pc |-> "predicted", prompt |-> prompt, text |-> r.text,
                              err |-> r.err, count |-> 0]]
            /\ IF r.err # NoError
               THEN /\ predictCalls - Len(okCalls) < MaxFailures
                    /\ failCalls' = MapPut(failCalls, r.err, MapGet(failCalls, r.err) + 1)
                    /\ UNCHANGED <<okCalls, okAfterCap>>
               ELSE /\ Len(okCalls) < MaxEmits
                    /\ okCalls' = Append(okCalls, <<prompt, r.text>>)
                    /\ okAfterCap' = Append(okAfterCap, PastCap)
                    /\ UNCHANGED failCalls
            /\ UNCHANGED skipLogs
    /\ UNCHANGED <<phase, errorCounts, ErrorCounter, workerIdentity, identityErr, emitted,
                   errLogs, attempts, mu>>
    /\ UNCHANGED outerVars

\* line 228, then the call returns
ConcEmit(t) ==
    /\ threads[t].pc = "predicted"
    /\ threads[t].err = NoError
    /\ emitted' = Append(emitted, Result(threads[t].prompt, threads[t].text))
    /\ threads' = [threads EXCEPT ![t] = IdleThread]
    /\ UNCHANGED <<phase, errorCounts, ErrorCounter, workerIdentity, identityErr, errLogs,
                   skipLogs, attempts, predictCalls, okCalls, okAfterCap, failCalls, processed, mu>>
    /\ UNCHANGED outerVars

\* lines 210-212
ConcCountError(t) ==
    /\ threads[t].pc = "predicted"
    /\ threads[t].err # NoError
    /\ ErrorCounter' = IncOnFailure(ErrorCounter)
    /\ threads' = [threads EXCEPT ![t].pc = "counted"]
    /\ UNCHANGED <<phase, errorCounts, workerIdentity, identityErr, emitted, errLogs,
                   skipLogs, attempts, predictCalls, okCalls, okAfterCap, failCalls, processed, mu>>
    /\ UNCHANGED outerVars

\* line 213
ConcLock(t) ==
    /\ threads[t].pc = "counted"
    /\ CanLock(t)
    /\ mu' = t
    /\ threads' = [threads EXCEPT ![t].pc = "locked"]
    /\ UNCHANGED <<phase, errorCounts, ErrorCounter, workerIdentity, identityErr, emitted,
                   errLogs, skipLogs, attempts, predictCalls, okCalls, okAfterCap, failCalls, processed>>
    /\ UNCHANGED outerVars

\* line 214
ConcReadCount(t) ==
    /\ threads[t].pc = "locked"
    /\ threads' = [threads EXCEPT
                     ![t].pc = "read",
                     ![t].count = MapGet(errorCounts.m, ErrorString(threads[t].err))]
    /\ UNCHANGED <<phase, errorCounts, ErrorCounter, workerIdentity, identityErr, emitted,
                   errLogs, skipLogs, attempts, predictCalls, okCalls, okAfterCap, failCalls, processed,
                   mu>>
    /\ UNCHANGED outerVars

\* lines 215-222
ConcLogAndStore(t) ==
    LET err == threads[t].err
        count == threads[t].count
        lines == LinesOf(errLogs, err)
    IN
    /\ threads[t].pc = "read"
    /\ IF BelowCap(count)
       THEN /\ errLogs' = MapPut(errLogs, err, Append(lines, ErrorLine(count)))
            /\ IF errorCounts.made
               THEN /\ errorCounts' = [errorCounts EXCEPT
                                         !.m = MapPut(@, ErrorString(err), StoredAfter(count))]
                    /\ UNCHANGED phase
               ELSE /\ phase' = "Crashed"
                    /\ UNCHANGED errorCounts
       ELSE IF AtCap(count)
       THEN /\ errLogs' = MapPut(errLogs, err, Append(lines, CapLine(count)))
            /\ errorCounts' = [errorCounts EXCEPT
                                 !.m = MapPut(@, ErrorString(err), StoredAfter(count))]
            /\ UNCHANGED phase
       ELSE UNCHANGED <<errLogs, errorCounts, phase>>
    /\ threads' = [threads EXCEPT ![t].pc = "stored"]
    /\ UNCHANGED <<ErrorCounter, workerIdentity, identityErr, emitted, skipLogs, attempts,
                   predictCalls, okCalls, okAfterCap, failCalls, processed, mu>>
    /\ UNCHANGED outerVars

\* variant: the silent path returns without Unlock
ConcUnlock_NotOnSilentPath(t) ==
    /\ threads[t].pc = "stored"
    /\ mu' = IF threads[t].count > maxRedundantErrors THEN mu ELSE NoHolder
    /\ threads' = [threads EXCEPT ![t] = IdleThread]
    /\ UNCHANGED <<phase, errorCounts, ErrorCounter, workerIdentity, identityErr, emitted,
                   errLogs, skipLogs, attempts, predictCalls, okCalls, okAfterCap, failCalls, processed>>
    /\ UNCHANGED outerVars

\* lines 223-224
ConcUnlock(t) ==
    /\ threads[t].pc = "stored"
    /\ mu' = NoHolder
    /\ threads' = [threads EXCEPT ![t] = IdleThread]
    /\ UNCHANGED <<phase, errorCounts, ErrorCounter, workerIdentity, identityErr, emitted,
                   errLogs, skipLogs, attempts, predictCalls, okCalls, okAfterCap, failCalls, processed>>
    /\ UNCHANGED outerVars

NextConc ==
    \/ \E metaEnv \in ConcMetaEnvs, adcEnv \in ConcAdcEnvs : Setup(metaEnv, adcEnv)
    \/ \E t \in Threads, prompt \in Prompts, env \in ConcPredictEnvs : ConcCall(t, prompt, env)
    \/ \E t \in Threads : ConcEmit(t)
    \/ \E t \in Threads : ConcCountError(t)
    \/ \E t \in Threads : ConcLock(t)
    \/ \E t \in Threads : ConcReadCount(t)
    \/ \E t \in Threads : ConcLogAndStore(t)
    \/ \E t \in Threads : ConcUnlock(t)
    \/ (AllIdle /\ Teardown)

SpecConc == Init /\ [][NextConc]_vars

\* a thread inside ProcessElement keeps running, and sync.Mutex hands the
\* lock to a waiting Lock call (starvation mode), so a waiter is not passed
\* over for ever
ConcFairness ==
    \A t \in Threads :
        /\ WF_vars(ConcEmit(t))
        /\ WF_vars(ConcCountError(t))
        /\ SF_vars(ConcLock(t))
        /\ WF_vars(ConcReadCount(t))
        /\ WF_vars(ConcLogAndStore(t))
        /\ WF_vars(ConcUnlock(t))

SpecConcFair == SpecConc /\ ConcFairness

Next ==
    \/ \E metaEnv \in MetaEnvs, adcEnv \in AdcEnvs : Setup(metaEnv, adcEnv)
    \/ \E prompt \in Prompts, env \in PredictEnvs : ProcessElement(prompt, env)
    \/ Teardown

Spec == Init /\ [][Next]_vars

\* a call made on the instance as run constructs it, before any Setup
CallBeforeSetup(prompt, env) ==
    /\ phase = "Uninitialized"
    /\ ProcessElementBody(prompt, env)

\* the calls in any order: Setup is not required to come first
NextAnyOrder ==
    \/ \E metaEnv \in ConcMetaEnvs, adcEnv \in ConcAdcEnvs : Setup(metaEnv, adcEnv)
    \/ \E prompt \in Prompts, env \in PredictEnvs : ProcessElement(prompt, env)
    \/ \E prompt \in Prompts, env \in PredictEnvs : CallBeforeSetup(prompt, env)
    \/ Teardown

SpecAnyOrder == Init /\ [][NextAnyOrder]_vars

\* callVertexPredictAPI on its own: one call per input, lines 232-314
InitPredict ==
    /\ InitDoFn
    /\ threads = [t \in Threads |-> IdleThread]
    /\ InitOuter
    /\ \E prompt \in Prompts, env \in AllPredictEnvs :
          probe = [done |-> FALSE, prompt |-> prompt, env |-> env,
                   out |-> [text |-> "", err |-> NoError]]

ApplyPredict ==
    /\ ~probe.done
    /\ probe' = [probe EXCEPT !.done = TRUE,
                              !.out = callVertexPredictAPI(probe.prompt, probe.env)]
    /\ UNCHANGED <<phase, errorCounts, ErrorCounter, workerIdentity, identityErr,
                   emitted, errLogs, skipLogs, attempts, predictCalls, okCalls, okAfterCap,
                   failCalls, processed, engineVars, main, other, current>>

NextPredict == ApplyPredict

SpecPredict == InitPredict /\ [][NextPredict]_vars

-----------------------------------------------------------------------------
(* Two workers: the calls go to the instance of the worker named by        *)
(* current; the other worker's instance is kept in other.                  *)

\* the fields and history of the instance being called
ThisDoFn ==
    [phase |-> phase, errorCounts |-> errorCounts, ErrorCounter |-> ErrorCounter,
     workerIdentity |-> workerIdentity, identityErr |-> identityErr,
     emitted |-> emitted, errLogs |-> errLogs, skipLogs |-> skipLogs,
     attempts |-> attempts, predictCalls |-> predictCalls, okCalls |-> okCalls,
     okAfterCap |-> okAfterCap, failCalls |-> failCalls, processed |-> processed]

\* variant: both instances hold the same errorCounts map
SwitchWorker_SharedCounts ==
    /\ current' = CHOOSE w \in Workers : w # current
    /\ other' = ThisDoFn
    /\ phase' = other.phase
    /\ ErrorCounter' = other.ErrorCounter
    /\ workerIdentity' = other.workerIdentity
    /\ identityErr' = other.identityErr
    /\ emitted' = other.emitted
    /\ errLogs' = other.errLogs
    /\ skipLogs' = other.skipLogs
    /\ attempts' = other.attempts
    /\ predictCalls' = other.predictCalls
    /\ okCalls' = other.okCalls
    /\ okAfterCap' = other.okAfterCap
    /\ failCalls' = other.failCalls
    /\ processed' = other.processed
    /\ UNCHANGED <<errorCounts, engineVars, probe, main>>

\* lines 166-177: the engine turns to the other worker, whose instance has
\* its own fields
SwitchWorker ==
    /\ current' = CHOOSE w \in Workers : w # current
    /\ other' = ThisDoFn
    /\ phase' = other.phase
    /\ errorCounts' = other.errorCounts
    /\ ErrorCounter' = other.ErrorCounter
    /\ workerIdentity' = other.workerIdentity
    /\ identityErr' = other.identityErr
    /\ emitted' = other.emitted
    /\ errLogs' = other.errLogs
    /\ skipLogs' = other.skipLogs
    /\ attempts' = other.attempts
    /\ predictCalls' = other.predictCalls
    /\ okCalls' = other.okCalls
    /\ okAfterCap' = other.okAfterCap
    /\ failCalls' = other.failCalls
    /\ processed' = other.processed
    /\ UNCHANGED <<engineVars, probe, main>>

\* what each worker is offered
WorkerPrompts == {"A"}

WorkerAdcEnvs ==
    {env \in AdcEnvs : env.kind = "noCredentials" \/ getADCIdentityEmail(env).err = NoError}

NextWorkers ==
    \/ \E metaEnv \in ConcMetaEnvs, adcEnv \in WorkerAdcEnvs : Setup(metaEnv, adcEnv)
    \/ \E prompt \in WorkerPrompts, env \in ConcPredictEnvs : ProcessElement(prompt, env)
    \/ SwitchWorker

SpecWorkers == Init /\ [][NextWorkers]_vars

-----------------------------------------------------------------------------
(* main(): flags, launcher identity, construction, execution.              *)

\* the command lines main can be given
MainConfigs ==
    [project : {"", "p"}, region : {"", "r"}, temp_location : {"", "t"},
     staging_location : {"", "s"}]

\* what ADC does for the launcher
MainAdcEnvs ==
    {env \in AdcEnvs : env.kind = "noCredentials" \/ getADCIdentityEmail(env).err = NoError}

\* variant: only --project is required
MissingFlag_ProjectOnly(cfg) ==
    IF cfg.project = "" THEN "project" ELSE ""

\* lines 371-382: the first required flag that is empty, "" when none is
MissingFlag(cfg) ==
    IF cfg.project = "" THEN "project"
    ELSE IF cfg.region = "" THEN "region"
    ELSE IF cfg.temp_location = "" THEN "temp_location"
    ELSE ""

\* log.Fatal / log.Fatalf: the message is logged and the process exits 1
Fatal(m, msg) ==
    [m EXCEPT !.pc = "exited", !.exit = "fatal", !.fatal = msg,
              !.log = Append(m.log, msg)]

\* lines 367-386: the flags are read and checked
MainCheckFlags(cfg) ==
    /\ main.pc = "start"
    /\ LET m == [main EXCEPT !.cfg = cfg] IN
       IF MissingFlag(cfg) # ""
       THEN main' = Fatal(m, <<"Missing required flag --", MissingFlag(cfg)>>)
       ELSE main' = [m EXCEPT !.pc = "checked",
                              !.log = IF cfg.staging_location = ""
                                      THEN <<<<"Warning: Missing flag --staging_location">>>>
                                      ELSE << >>]
    /\ UNCHANGED <<phase, errorCounts, ErrorCounter, workerIdentity, identityErr,
                   emitted, errLogs, skipLogs, attempts, predictCalls, okCalls, okAfterCap,
                   failCalls, processed, engineVars, probe, other, current>>

\* lines 390-408: the launcher identity is looked up and logged
MainLauncherIdentity(adcEnv) ==
    /\ main.pc = "checked"
    /\ LET r == getADCIdentityEmail(adcEnv)
           warned == IF r.err # NoError
                     THEN Append(main.log,
                                 <<"Warning: Could not determine launcher identity via ADC: ">>
                                 \o r.err)
                     ELSE main.log
           launcherIdentity == IF r.err # NoError THEN <<"unknown">> ELSE r.email
       IN main' = [main EXCEPT !.pc = "identified",
                               !.log = Append(warned,
                                              <<"Launcher Identity (determined via ADC): ">>
                                              \o launcherIdentity)]
    /\ UNCHANGED <<phase, errorCounts, ErrorCounter, workerIdentity, identityErr,
                   emitted, errLogs, skipLogs, attempts, predictCalls, okCalls, okAfterCap,
                   failCalls, processed, engineVars, probe, other, current>>

\* run, lines 323-362: the graph is built; the only return is nil
run == NoError

\* lines 410-414: the pipeline is constructed
MainConstruct ==
    /\ main.pc = "identified"
    /\ main' = IF run # NoError
               THEN Fatal(main, <<"Failed to construct the pipeline graph: ">> \o run)
               ELSE [main EXCEPT !.pc = "constructed", !.constructed = TRUE,
                                 !.log = Append(main.log,
                                                <<"Pipeline graph constructed successfully.">>)]
    /\ UNCHANGED <<phase, errorCounts, ErrorCounter, workerIdentity, identityErr,
                   emitted, errLogs, skipLogs, attempts, predictCalls, okCalls, okAfterCap,
                   failCalls, processed, engineVars, probe, other, current>>

\* line 416: beamx.Run is entered
MainExecute ==
    /\ main.pc = "constructed"
    /\ main' = [main EXCEPT !.pc = "running", !.executed = TRUE]
    /\ UNCHANGED <<phase, errorCounts, ErrorCounter, workerIdentity, identityErr,
                   emitted, errLogs, skipLogs, attempts, predictCalls, okCalls, okAfterCap,
                   failCalls, processed, engineVars, probe, other, current>>

\* lines 416-420: beamx.Run returns an error
MainRunFails(engineErr) ==
    /\ main.pc = "running"
    /\ main' = Fatal([main EXCEPT !.log = Append(main.log, <<"Pipeline failed after ", "elapsed">>)],
                     <<"Failed to execute pipeline: ", engineErr>>)
    /\ UNCHANGED <<phase, errorCounts, ErrorCounter, workerIdentity, identityErr,
                   emitted, errLogs, skipLogs, attempts, predictCalls, okCalls, okAfterCap,
                   failCalls, processed, engineVars, probe, other, current>>

\* lines 416, 422-430: beamx.Run returns nil once the worker is torn down
MainRunSucceeds ==
    /\ main.pc = "running"
    /\ phase = "TornDown"
    /\ main' = [main EXCEPT !.pc = "exited", !.exit = "ok",
                            !.log = main.log \o <<<<"Pipeline finished successfully.">>,
                                                  <<"Total execution time: ", "elapsed">>>>]
    /\ UNCHANGED <<phase, errorCounts, ErrorCounter, workerIdentity, identityErr,
                   emitted, errLogs, skipLogs, attempts, predictCalls, okCalls, okAfterCap,
                   failCalls, processed, engineVars, probe, other, current>>

\* what the engine reports when it gives up
EngineErrors == {"job failed"}

\* the worker's calls happen inside beamx.Run
NextMain ==
    \/ \E cfg \in MainConfigs : MainCheckFlags(cfg)
    \/ \E adcEnv \in MainAdcEnvs : MainLauncherIdentity(adcEnv)
    \/ MainConstruct
    \/ MainExecute
    \/ \E engineErr \in EngineErrors : MainRunFails(engineErr)
    \/ MainRunSucceeds
    \/ (main.pc = "running"
        /\ \E metaEnv \in ConcMetaEnvs, adcEnv \in ConcAdcEnvs : Setup(metaEnv, adcEnv))
    \/ (main.pc = "running"
        /\ \E prompt \in Prompts, env \in ConcPredictEnvs : ProcessElement(prompt, env))
    \/ (main.pc = "running" /\ Teardown)

SpecMain == Init /\ [][NextMain]_vars

-----------------------------------------------------------------------------
(* Properties.                                                             *)

Min(a, b) == IF a <= b THEN a ELSE b

RECURSIVE SumOver(_, _)
SumOver(f, keys) ==
    IF keys = {} THEN 0
    ELSE LET k == CHOOSE x \in keys : TRUE IN f[k] + SumOver(f, keys \ {k})

\* number of ProcessElement calls whose prediction failed
FailedCalls == SumOver(failCalls, DOMAIN failCalls)

\* number of ProcessElement calls whose prediction failed with message m
FailuresWith(m) == MapGet(failCalls, m)

\* number of times record rec occurs in sequence s
Occurrences(s, rec) == Cardinality({i \in 1..Len(s) : s[i] = rec})

\* both identity strategies were tried by Setup and both failed
BothStrategiesFailed ==
    /\ Len(attempts) = 2
    /\ attempts[1].err # NoError
    /\ attempts[2].err # NoError

NoPredictionText == "No prediction content from Vertex AI"

\* C1: on a worker that passed the identity gate, a ProcessElement call whose
\* prediction returns text C without error calls emit exactly once, with the
\* record {Prompt: P, GeneratedText: C}: prompt unchanged, text as returned.
C1_EmitsPromptAndText ==
    [][\A prompt \in Prompts, env \in PredictEnvs :
         ( /\ ProcessElement(prompt, env)
           /\ identityErr = NoError
           /\ callVertexPredictAPI(prompt, env).err = NoError )
         => emitted' = Append(emitted, [Prompt |-> prompt,
                                        GeneratedText |-> callVertexPredictAPI(prompt, env).text])
    ]_vars

C1_Witness ==
    /\ identityErr = NoError
    /\ Len(emitted) = 2
    /\ emitted[1] = [Prompt |-> "B", GeneratedText |-> "a"]
    /\ emitted[2] = [Prompt |-> "A", GeneratedText |-> "a"]

\* C2: after n failed calls with message m the log holds exactly min(n, 21)
\* lines for m: lines 1..20 are error-severity logs, line 21 is the single
\* cap warning, and later failures with m add nothing.
C2_LogLinesCapped ==
    \A m \in DOMAIN failCalls :
        LET lines == LinesOf(errLogs, m) IN
        /\ Len(lines) = Min(failCalls[m], 21)
        /\ \A i \in 1..Len(lines) :
              /\ i <= 20 => lines[i].severity = "ERROR"
              /\ i = 21 => lines[i].severity = "WARNING"

C2_Witness ==
    \E m \in DOMAIN failCalls :
        /\ failCalls[m] = 22
        /\ Len(LinesOf(errLogs, m)) = 21
        /\ errLogs[m][21].severity = "WARNING"

\* C3: the cap is kept per message: the number of lines logged for m2 is
\* decided by the number of failures with m2 alone, and a first failure
\* with m2 is logged with count 1 whatever the number of failures with m1,
\* also when m1 is already silenced.
C3_CapPerMessage ==
    \A m1 \in DOMAIN failCalls, m2 \in DOMAIN failCalls :
        m1 # m2 =>
            /\ FailuresWith(m2) <= 20 => Len(LinesOf(errLogs, m2)) = FailuresWith(m2)
            /\ FailuresWith(m2) = 1 =>
                  /\ errLogs[m2][1].severity = "ERROR"
                  /\ errLogs[m2][1].count = 1
                  /\ MapGet(errorCounts.m, m2) = 1
            /\ FailuresWith(m1) >= 21 => Len(LinesOf(errLogs, m1)) = 21

C3_Witness ==
    \E m1 \in DOMAIN failCalls, m2 \in DOMAIN failCalls :
        /\ m1 # m2
        /\ failCalls[m1] = 21
        /\ failCalls[m2] = 1
        /\ Len(LinesOf(errLogs, m2)) = 1

\* C4: when both identity strategies failed during Setup, no later
\* ProcessElement call emits, calls the prediction API or increments
\* predict_errors_total.
C4_IdentityFailureGatesAll ==
    BothStrategiesFailed =>
        /\ emitted = << >>
        /\ predictCalls = 0
        /\ ErrorCounter = 0

C4_Witness ==
    /\ BothStrategiesFailed
    /\ processed = 3
    /\ phase = "Ready"

\* C5: HTTP 200 with an empty predictions list makes the prediction call
\* return "No prediction content from Vertex AI" with no error, and
\* ProcessElement emits {prompt, that text} and leaves the error counter and
\* errorCounts as they were.
C5_EmptyPredictionsIsSoftSuccess ==
    [][\A prompt \in Prompts, env \in PredictEnvs :
         ( /\ ProcessElement(prompt, env)
           /\ identityErr = NoError
           /\ env.kind = "http"
           /\ env.status = 200
           /\ env.body.valid
           /\ env.body.predictions = << >> )
         => /\ callVertexPredictAPI(prompt, env) = [text |-> NoPredictionText, err |-> NoError]
            /\ emitted' = Append(emitted, [Prompt |-> prompt, GeneratedText |-> NoPredictionText])
            /\ ErrorCounter' = ErrorCounter
            /\ errorCounts' = errorCounts
    ]_vars

C5_Witness ==
    /\ Len(emitted) >= 1
    /\ emitted[Len(emitted)] = [Prompt |-> "A", GeneratedText |-> NoPredictionText]
    /\ ErrorCounter = 0

\* C6: on a worker that passed the identity gate, the emitted records are, as
\* a multiset, the (prompt, text) pairs of the calls whose prediction
\* succeeded, and predict_errors_total is the number of calls whose prediction
\* failed, logged or not.
C6_EmittedAndCounterMatchHistory ==
    identityErr = NoError =>
        /\ Len(emitted) = Len(okCalls)
        /\ \A i \in 1..Len(okCalls) :
              LET rec == [Prompt |-> okCalls[i][1], GeneratedText |-> okCalls[i][2]] IN
              Occurrences(emitted, rec)
                  = Cardinality({j \in 1..Len(okCalls) : okCalls[j] = okCalls[i]})
        /\ ErrorCounter = FailedCalls
        /\ predictCalls = Len(emitted) + ErrorCounter

C6_Witness ==
    /\ identityErr = NoError
    /\ Len(emitted) = 2
    /\ ErrorCounter = 22
    /\ \E m \in DOMAIN failCalls : failCalls[m] = 22 /\ Len(LinesOf(errLogs, m)) = 21

\* C7: after Setup exactly one of workerIdentity and identityErr is set,
\* whatever the two identity strategies answered.
C7_ExactlyOneOfIdentityAndError ==
    phase # "Uninitialized" =>
        ((workerIdentity # EmptyString) <=> (identityErr = NoError))

\* C8: a prediction error is absorbed by ProcessElement: the call returns,
\* the worker stays Ready with its identity state untouched, and whether a
\* record is emitted is decided by that record's own prediction result alone,
\* whatever errors earlier records left behind.
C8_ErrorsAbsorbed ==
    [][\A prompt \in Prompts, env \in PredictEnvs :
         (ProcessElement(prompt, env) /\ identityErr = NoError)
         => LET r == callVertexPredictAPI(prompt, env) IN
            /\ phase' = "Ready"
            /\ identityErr' = NoError
            /\ workerIdentity' = workerIdentity
            /\ r.err # NoError => emitted' = emitted
            /\ r.err = NoError =>
                  emitted' = Append(emitted, [Prompt |-> prompt, GeneratedText |-> r.text])
    ]_vars

C8_Witness ==
    /\ phase = "Ready"
    /\ identityErr = NoError
    /\ Cardinality(DOMAIN errorCounts.m) = 2
    /\ ErrorCounter >= 3
    /\ Len(emitted) = 1

\* C9: Setup can always run on an uninitialised worker and always leaves it
\* Ready with an empty error tracker; when both strategies fail the failure
\* is stored in identityErr and the worker is Ready all the same.
C9_SetupAlwaysCompletes ==
    /\ [](phase = "Uninitialized" =>
            \A metaEnv \in MetaEnvs, adcEnv \in AdcEnvs : ENABLED Setup(metaEnv, adcEnv))
    /\ [][\A metaEnv \in MetaEnvs, adcEnv \in AdcEnvs :
            Setup(metaEnv, adcEnv) =>
               /\ phase' = "Ready"
               /\ errorCounts' = [made |-> TRUE, m |-> EmptyMap]
               /\ ( /\ getMetadataServiceAccountEmail(metaEnv).err # NoError
                    /\ getADCIdentityEmail(adcEnv).err # NoError )
                  => /\ identityErr' # NoError
                     /\ workerIdentity' = EmptyString
       ]_vars

C9_Witness ==
    /\ phase = "Ready"
    /\ BothStrategiesFailed
    /\ identityErr # NoError
    /\ errorCounts = [made |-> TRUE, m |-> EmptyMap]
    /\ processed = 0

\* C10: Setup calls the metadata strategy first and once, calls the
\* token-introspection fallback once if and only if the metadata strategy
\* failed, takes the identity from the first strategy that succeeded, and
\* records an identity error exactly when both failed.
C10_FirstSuccessfulStrategyWins ==
    IF phase = "Uninitialized"
    THEN attempts = << >>
    ELSE /\ Len(attempts) \in {1, 2}
         /\ attempts[1].strategy = "metadata"
         /\ \A i \in 2..Len(attempts) : attempts[i].strategy = "adc"
         /\ (Len(attempts) = 2) <=> (attempts[1].err # NoError)
         /\ attempts[1].err = NoError =>
               (workerIdentity = attempts[1].email /\ identityErr = NoError)
         /\ (Len(attempts) = 2 /\ attempts[2].err = NoError) =>
               (workerIdentity = attempts[2].email /\ identityErr = NoError)
         /\ (identityErr # NoError) <=> BothStrategiesFailed

C10_Witness ==
    /\ Len(attempts) = 2
    /\ attempts[1].err # NoError
    /\ attempts[2].err = NoError
    /\ workerIdentity = <<"u">>
    /\ identityErr = NoError

\* the positions of the lines of the given severity logged for message m
LinesWith(m, severity) ==
    {i \in 1..Len(LinesOf(errLogs, m)) : errLogs[m][i].severity = severity}

\* C11: overlapping failing calls on one instance touch errorCounts only
\* while holding fn.mu, so no update is lost: once n calls that failed with
\* message m have all returned, the stored count is min(n, 21), there are
\* exactly min(n, 20) error logs and their counts are 1..min(n, 20), each
\* once; at any moment the error logs of m carry pairwise distinct counts and
\* the cap warning was written at most once.
C11_NoLostUpdateUnderMutex ==
    /\ \A t \in Threads : threads[t].pc \in {"locked", "read", "stored"} => mu = t
    /\ \A m \in DOMAIN failCalls :
          LET errorLines == LinesWith(m, "ERROR") IN
          /\ \A i \in errorLines, j \in errorLines :
                i # j => errLogs[m][i].count # errLogs[m][j].count
          /\ Cardinality(LinesWith(m, "WARNING")) <= 1
          /\ AllIdle =>
                /\ MapGet(errorCounts.m, m) = Min(failCalls[m], 21)
                /\ Cardinality(errorLines) = Min(failCalls[m], 20)
                /\ {errLogs[m][i].count : i \in errorLines} = 1..Min(failCalls[m], 20)

C11_Witness ==
    \E t1 \in Threads, t2 \in Threads :
        /\ t1 # t2
        /\ threads[t1].pc = "read"
        /\ threads[t1].count = 20
        /\ threads[t2].pc = "counted"
        /\ threads[t2].err = threads[t1].err
        /\ failCalls[threads[t1].err] = 22

\* whether a piece occurs in an error's message
HasPiece(err, piece) == \E i \in 1..Len(err) : err[i] = piece

\* C12: a non-200 answer whose body decodes to an error object with a
\* non-empty message makes callVertexPredictAPI return an error that carries
\* that message, the HTTP status and the API status string, and no text.
C12_StructuredErrorCarriesMessage ==
    (/\ probe.done
     /\ probe.env # << >>
     /\ probe.env.kind = "http"
     /\ probe.env.status # StatusOK
     /\ probe.env.body.valid
     /\ probe.env.body.error.message # "")
    => /\ probe.out.err # NoError
       /\ probe.out.text = ""
       /\ HasPiece(probe.out.err, probe.env.body.error.message)
       /\ HasPiece(probe.out.err, ToString(probe.env.status))
       /\ HasPiece(probe.out.err, probe.env.body.error.status)

C12_Witness ==
    /\ probe.done
    /\ probe.env # << >>
    /\ probe.env.kind = "http"
    /\ probe.env.status = 500
    /\ probe.env.body.valid
    /\ probe.env.body.error.message = "quota exceeded"
    /\ probe.env.body.predictions = <<"a", "b">>
    /\ HasPiece(probe.out.err, "quota exceeded")

\* what holds of main() in every state
StartupOrder ==
    /\ main.executed => main.constructed
    /\ main.constructed =>
          /\ main.cfg.project # "" /\ main.cfg.region # ""
          /\ main.cfg.temp_location # ""
    /\ (main.pc # "start" /\ (main.cfg.project = "" \/ main.cfg.region = "")) =>
          /\ main.exit = "fatal"
          /\ main.fatal[1] = "Missing required flag --"
          /\ ~main.constructed /\ ~main.executed
    /\ ~main.executed =>
          /\ phase = "Uninitialized" /\ processed = 0 /\ predictCalls = 0
          /\ main.exit # "ok"
    /\ main.exit = "fatal" =>
          /\ main.pc = "exited"
          /\ main.fatal[1] \in {"Missing required flag --",
                                 "Failed to construct the pipeline graph: ",
                                 "Failed to execute pipeline: "}
          /\ main.fatal[1] = "Failed to construct the pipeline graph: " => ~main.executed
          /\ main.fatal[1] = "Failed to execute pipeline: " =>
                /\ main.executed
                /\ main.fatal[2] \in EngineErrors
                /\ Len(main.log) >= 2
                /\ main.log[Len(main.log)] = main.fatal
                /\ main.log[Len(main.log) - 1] = <<"Pipeline failed after ", "elapsed">>

\* C13: main checks the flags, then constructs the pipeline, then executes
\* it.  A missing project or region exits fatally with nothing constructed or
\* executed; a construction failure exits before execution; an execution
\* failure exits fatally after logging the elapsed time; a step that
\* processes a record, failed or not, never changes main's state.
C13_StartupSequence ==
    [][/\ StartupOrder'
       /\ (processed' # processed \/ ErrorCounter' # ErrorCounter \/ skipLogs' # skipLogs)
             => main' = main
       /\ main'.exit # main.exit =>
             /\ processed' = processed /\ ErrorCounter' = ErrorCounter
             /\ main.exit = "none"]_vars

C13_Witness ==
    /\ main.exit = "fatal"
    /\ main.fatal[1] = "Failed to execute pipeline: "
    /\ main.log[Len(main.log) - 1] = <<"Pipeline failed after ", "elapsed">>
    /\ main.cfg.staging_location = ""
    /\ ErrorCounter = 21
    /\ Len(emitted) = 1

\* C14: on a worker with a resolved identity, a prompt delivered again with
\* the same prediction result emits a record equal to the one emitted
\* before, however many failures errorCounts recorded in between; the step
\* only appends that duplicate and leaves the error state alone.
C14_RedeliveryEmitsEqualRecord ==
    [][okCalls' # okCalls =>
          /\ identityErr = NoError
          /\ Len(emitted') = Len(emitted) + 1
          /\ SubSeq(emitted', 1, Len(emitted)) = emitted
          /\ \A i \in 1..Len(okCalls) :
                okCalls[i] = okCalls'[Len(okCalls')] => emitted[i] = emitted'[Len(emitted')]
          /\ UNCHANGED <<errorCounts, ErrorCounter, errLogs>>]_vars

C14_Witness ==
    /\ Len(okCalls) = 2
    /\ okCalls[1] = okCalls[2]
    /\ okAfterCap = <<FALSE, TRUE>>
    /\ Len(emitted) = 2
    /\ emitted[1] = emitted[2]
    /\ identityErr = NoError

\* an instance whose counts, log lines and emissions come from its own calls
OwnHistoryOnly(d) ==
    /\ DOMAIN d.errorCounts.m \subseteq DOMAIN d.failCalls
    /\ DOMAIN d.errLogs \subseteq DOMAIN d.failCalls
    /\ \A m \in DOMAIN d.failCalls :
          /\ MapGet(d.errorCounts.m, m) = Min(d.failCalls[m], maxRedundantErrors + 1)
          /\ Len(LinesOf(d.errLogs, m)) = Min(d.failCalls[m], maxRedundantErrors + 1)
    /\ d.ErrorCounter = SumOver(d.failCalls, DOMAIN d.failCalls)
    /\ d.identityErr # NoError => d.emitted = << >> /\ d.skipLogs = d.processed
    /\ d.identityErr = NoError => d.skipLogs = 0 /\ Len(d.emitted) = Len(d.okCalls)

\* C15: a Setup or ProcessElement on one instance leaves the other instance's
\* fields (errorCounts, workerIdentity, identityErr and the rest) unchanged;
\* each instance's counts, suppression and gating follow from its own calls
\* alone, so a worker whose identity failed does not stop the other from
\* emitting and the cap of 20 is applied per worker.
C15_WorkersShareNoState ==
    [][/\ current' = current => other' = other
       /\ OwnHistoryOnly(ThisDoFn)'
       /\ OwnHistoryOnly(other)']_vars

C15_Witness ==
    /\ other.identityErr # NoError
    /\ other.skipLogs = 2
    /\ identityErr = NoError
    /\ Len(emitted) = 1
    /\ \E m \in DOMAIN failCalls : failCalls[m] = 22 /\ errorCounts.m[m] = 21

\* C16: the value of a resolved workerIdentity only shows in log lines: two
\* instances with resolved identities and the same prediction results have
\* the same emissions, the same error counter and the same errorCounts,
\* whatever their identities are; with a resolved identity every record
\* reaches the prediction call, and only an identity failure skips records.
C16_IdentityValueOnlyInLogs ==
    /\ (/\ phase = "Ready" /\ other.phase = "Ready"
        /\ identityErr = NoError /\ other.identityErr = NoError
        /\ okCalls = other.okCalls /\ failCalls = other.failCalls)
       => /\ emitted = other.emitted
          /\ ErrorCounter = other.ErrorCounter
          /\ errorCounts = other.errorCounts
    /\ \A d \in {ThisDoFn, other} :
          /\ d.identityErr = NoError => d.processed = d.predictCalls /\ d.skipLogs = 0
          /\ d.identityErr # NoError => d.predictCalls = 0 /\ d.skipLogs = d.processed

C16_Witness ==
    /\ phase = "Ready" /\ other.phase = "Ready"
    /\ identityErr = NoError /\ other.identityErr = NoError
    /\ workerIdentity # other.workerIdentity
    /\ okCalls = other.okCalls /\ Len(okCalls) = 1
    /\ failCalls = other.failCalls
    /\ \E m \in DOMAIN failCalls : failCalls[m] = 21
    /\ errLogs # other.errLogs
    /\ errorCounts = other.errorCounts

\* C17: with records processed one at a time, the emitted sequence is the
\* sequence of the inputs whose prediction succeeded, in arrival order: the
\* i-th emitted record belongs to the i-th successful call.
C17_EmitOrderIsArrivalOrder ==
    /\ emitted = [i \in 1..Len(okCalls) |->
                    [Prompt |-> okCalls[i][1], GeneratedText |-> okCalls[i][2]]]
    /\ Len(emitted) + FailedCalls = predictCalls

C17_Witness ==
    /\ Len(emitted) = 2
    /\ emitted[1].Prompt = "B"
    /\ emitted[2].Prompt = "A"
    /\ okAfterCap = <<FALSE, TRUE>>
    /\ processed = 24

\* the messages whose failure this step recorded
FailedNow(m) == m \in DOMAIN failCalls' /\ failCalls'[m] > MapGet(failCalls, m)

\* C18 as stated: once the cap warning has been given for a message, each
\* further failed call with it still raises the stored errorCounts value and
\* writes no log line.
C18_CountKeepsIncrementing ==
    [][\A m \in DOMAIN failCalls' :
          (FailedNow(m) /\ MapGet(errorCounts.m, m) > maxRedundantErrors)
          => /\ MapGet(errorCounts'.m, m) > MapGet(errorCounts.m, m)
             /\ errLogs' = errLogs]_vars

\* C18, amended: the failed call that finds the stored count at the cap
\* writes the one warning and stores cap + 1; every later failed call with
\* that message leaves errorCounts and the log as they are, and only the
\* ErrorCounter metric keeps incrementing.
C18_CountStopsAfterCap ==
    [][\A m \in DOMAIN failCalls' :
          FailedNow(m) =>
            LET count == MapGet(errorCounts.m, m) IN
            /\ ErrorCounter' = ErrorCounter + 1
            /\ count = maxRedundantErrors =>
                  /\ MapGet(errorCounts'.m, m) = maxRedundantErrors + 1
                  /\ Len(LinesOf(errLogs', m)) = Len(LinesOf(errLogs, m)) + 1
                  /\ errLogs'[m][Len(errLogs'[m])].severity = "WARNING"
            /\ count > maxRedundantErrors =>
                  /\ errorCounts' = errorCounts
                  /\ errLogs' = errLogs]_vars

C18_Witness ==
    \E m \in DOMAIN failCalls :
        /\ failCalls[m] = 22
        /\ errorCounts.m[m] = 21
        /\ Len(errLogs[m]) = 21
        /\ ErrorCounter = 22

\* C19: no step lowers a stored errorCounts value; the map is empty only as
\* Setup leaves it on a new instance; a ProcessElement call whose prediction
\* succeeded and Teardown leave errorCounts unchanged, so every change after
\* Setup comes from a failed call.
C19_CountsNeverDecrease ==
    [][/\ \A m \in DOMAIN errorCounts.m :
             /\ m \in DOMAIN errorCounts'.m
             /\ errorCounts'.m[m] >= errorCounts.m[m]
       /\ attempts' # attempts =>
             /\ errorCounts.m = EmptyMap
             /\ errorCounts' = [made |-> TRUE, m |-> EmptyMap]
       /\ (okCalls' # okCalls \/ phase' = "TornDown" \/ skipLogs' # skipLogs)
             => errorCounts' = errorCounts
       /\ (errorCounts' # errorCounts /\ attempts' = attempts)
             => \E m \in DOMAIN failCalls' : FailedNow(m)]_vars

C19_Witness ==
    /\ phase = "TornDown"
    /\ Len(okCalls) = 2
    /\ okAfterCap = <<FALSE, TRUE>>
    /\ \E m1 \in DOMAIN errorCounts.m, m2 \in DOMAIN errorCounts.m :
          errorCounts.m[m1] = 21 /\ errorCounts.m[m2] = 1

\* whether the pieces of one error's message occur, in a row, in another's
Contains(err, cause) ==
    \E i \in 1..(Len(err) - Len(cause) + 1) :
        SubSeq(err, i, i + Len(cause) - 1) = cause

\* C20: when both identity strategies fail, the identityErr that Setup stores
\* carries the metadata-server failure and the token-introspection failure.
C20_BothCausesChained ==
    BothStrategiesFailed =>
        /\ identityErr # NoError
        /\ Contains(identityErr, attempts[1].err)
        /\ Contains(identityErr, attempts[2].err)

\* C21: the k-th failure with message m, 1 <= k <= 20, appends an error line
\* that reports k, the stored count found plus one, and stores k: after the
\* call the last logged count and the stored count agree.
C21_LoggedCountIsStoredCount ==
    [][\A m \in DOMAIN failCalls' :
          (FailedNow(m) /\ failCalls'[m] <= maxRedundantErrors) =>
            LET k == failCalls'[m]
                lines == LinesOf(errLogs', m)
            IN /\ MapGet(errorCounts.m, m) = k - 1
               /\ lines = Append(LinesOf(errLogs, m), lines[Len(lines)])
               /\ lines[Len(lines)].severity = "ERROR"
               /\ lines[Len(lines)].count = k
               /\ MapGet(errorCounts'.m, m) = k]_vars

C21_Witness ==
    \E m \in DOMAIN failCalls :
        /\ failCalls[m] = 20
        /\ errorCounts.m[m] = 20
        /\ Len(errLogs[m]) = 20
        /\ errLogs[m][20].count = 20

\* C22: on a worker whose identity failed, each ProcessElement call writes
\* exactly one skip line and does nothing else: n records give n skip lines,
\* with no cap, and errorCounts, the error counter, workerIdentity,
\* identityErr, the emissions and the error log stay as they were.
C22_SkipLogsOnePerRecord ==
    [][/\ (identityErr # NoError /\ processed' # processed) =>
             /\ processed' = processed + 1
             /\ skipLogs' = skipLogs + 1
             /\ UNCHANGED <<errorCounts, ErrorCounter, workerIdentity, identityErr,
                            emitted, errLogs, predictCalls>>
       /\ identityErr' # NoError => skipLogs' = processed']_vars

C22_Witness ==
    /\ identityErr # NoError
    /\ phase = "Ready"
    /\ processed = 3
    /\ skipLogs = 3
    /\ errorCounts = [made |-> TRUE, m |-> EmptyMap]
    /\ ErrorCounter = 0

EmptyPredictionText == "Empty prediction content from Vertex AI"

\* an HTTP 200 answer that decodes and lists at least one prediction
ProbeHasPredictions ==
    /\ probe.done
    /\ probe.env # << >>
    /\ probe.env.kind = "http"
    /\ probe.env.status = StatusOK
    /\ probe.env.body.valid
    /\ Len(probe.env.body.predictions) > 0

\* C23: on HTTP 200 with a non-empty predictions list only the first
\* prediction is consumed: empty content gives the sentinel "Empty prediction
\* content from Vertex AI" without error, any other content is returned
\* verbatim, and the predictions after the first make no difference.
C23_OnlyFirstPredictionConsumed ==
    ProbeHasPredictions =>
        LET first == probe.env.body.predictions[1]
            alone == [probe.env EXCEPT !.body.predictions = <<first>>]
        IN /\ probe.out.err = NoError
           /\ first = "" => probe.out.text = EmptyPredictionText
           /\ first # "" => probe.out.text = first
           /\ probe.out = callVertexPredictAPI(probe.prompt, alone)

C23_Witness ==
    /\ ProbeHasPredictions
    /\ probe.env.body.predictions = <<"", "b">>
    /\ probe.out = [text |-> EmptyPredictionText, err |-> NoError]

\* C24: every non-200 answer is a failure: the call returns an error and no
\* text, never a sentinel; when the body does not decode or its error
\* message is empty, the error carries the status code and the whole raw
\* body text.
C24_UnstructuredErrorCarriesRawBody ==
    (/\ probe.done
     /\ probe.env # << >>
     /\ probe.env.kind = "http"
     /\ probe.env.status # StatusOK)
    => /\ probe.out.err # NoError
       /\ probe.out.text = ""
       /\ (~probe.env.body.valid \/ probe.env.body.error.message = "") =>
             probe.out.err = <<"vertex ai predict api request failed with status ",
                               ToString(probe.env.status), ": ">> \o probe.env.body.raw

C24_Witness ==
    /\ probe.done
    /\ probe.env # << >>
    /\ probe.env.kind = "http"
    /\ probe.env.status = 500
    /\ ~probe.env.body.valid
    /\ probe.env.body.raw = LongRaw
    /\ Contains(probe.out.err, LongRaw)
    /\ probe.out.text = ""

\* C25: in every reachable state, whatever the number of failures and the
\* interleaving of overlapping ProcessElement calls, no stored errorCounts
\* value exceeds cap + 1 = 21, and a value that has reached 21 stays 21.
C25_StoredCountAtMostCapPlusOne ==
    [][/\ \A m \in DOMAIN errorCounts'.m :
             errorCounts'.m[m] <= maxRedundantErrors + 1
       /\ \A m \in DOMAIN errorCounts.m :
             errorCounts.m[m] = maxRedundantErrors + 1 =>
                /\ errorCounts' = errorCounts
                /\ LinesOf(errLogs', m) = LinesOf(errLogs, m)]_vars

C25_Witness ==
    \E t1 \in Threads, t2 \in Threads :
        /\ t1 # t2
        /\ threads[t1].pc = "stored"
        /\ threads[t1].count = 21
        /\ MapGet(errorCounts.m, threads[t1].err) = 21
        /\ failCalls[threads[t1].err] = 22
        /\ threads[t2].pc = "predicted"
        /\ threads[t2].err = NoError

\* C26: the identity sub-state is fixed by Setup: every step that is not
\* Setup (a ProcessElement call that succeeds, fails or is skipped, and
\* Teardown) leaves workerIdentity and identityErr unchanged, so after Setup
\* identityErr is set exactly when the last strategy tried had failed.
C26_IdentityFixedBySetup ==
    [][/\ attempts' = attempts => UNCHANGED <<workerIdentity, identityErr>>
       /\ phase' # "Uninitialized" =>
             /\ Len(attempts') > 0
             /\ (identityErr' # NoError) = (attempts'[Len(attempts')].err # NoError)
             /\ identityErr' = NoError => workerIdentity' = attempts'[Len(attempts')].email]_vars

C26_Witness ==
    /\ phase = "TornDown"
    /\ identityErr = NoError
    /\ workerIdentity = <<"u">>
    /\ Len(emitted) = 1
    /\ ErrorCounter = 22

\* the statements between Lock and Unlock, lines 214-222
InFailureBranch(t) == threads[t].pc \in {"locked", "read", "stored"}

\* C27: fn.mu is held exactly by a call that is between Lock and Unlock,
\* never by a call that is idle, in its prediction call or waiting, and it is
\* free when no call is in the failure branch; with overlapping calls whose
\* prediction calls return, every call that has started completes.
C27_MutexReleasedAndCallsComplete ==
    /\ [](\A t \in Threads : (mu = t) = InFailureBranch(t))
    /\ []((\A t \in Threads : ~InFailureBranch(t)) => mu = NoHolder)
    /\ \A t \in Threads : (threads[t].pc # "idle") ~> (threads[t].pc = "idle")

C27_Witness ==
    \E t1 \in Threads, t2 \in Threads :
        /\ t1 # t2
        /\ mu = t1
        /\ threads[t1].pc = "stored"
        /\ threads[t1].count = 20
        /\ threads[t2].pc = "predicted"
        /\ threads[t2].err # NoError
        /\ threads[t2].err = threads[t1].err

\* the three ways a ProcessElement call can end, as seen in one step
SkippedStep ==
    /\ skipLogs' = skipLogs + 1
    /\ UNCHANGED <<emitted, ErrorCounter>>

FailedStep ==
    /\ ErrorCounter' = ErrorCounter + 1
    /\ UNCHANGED <<emitted, skipLogs>>

SucceededStep ==
    /\ Len(emitted') = Len(emitted) + 1
    /\ SubSeq(emitted', 1, Len(emitted)) = emitted
    /\ UNCHANGED <<ErrorCounter, skipLogs>>

\* C28: each ProcessElement call is skipped (identity failed: no emit, no
\* counter increment), failed (counter plus one, no emit) or succeeded (one
\* emit, no counter increment), and only one of the three; so after any
\* sequence of calls processed = skipped + failed + emitted.
C28_ExactlyOneOutcomePerCall ==
    [][/\ processed' # processed =>
             /\ processed' = processed + 1
             /\ SkippedStep \/ FailedStep \/ SucceededStep
             /\ SkippedStep = (identityErr # NoError)
             /\ FailedStep = (predictCalls' # predictCalls /\ okCalls' = okCalls)
             /\ SucceededStep = (okCalls' # okCalls)
       /\ processed' = processed =>
             UNCHANGED <<emitted, ErrorCounter, skipLogs>>
       /\ processed' = skipLogs' + ErrorCounter' + Len(emitted')]_vars

C28_Witness ==
    /\ processed = 24
    /\ skipLogs = 0
    /\ ErrorCounter = 22
    /\ Len(emitted) = 2

\* C29: errorCounts is written only once Setup has made it: a failed call
\* on an instance whose Setup has run finds the map made and is absorbed,
\* while a failed call on an instance whose Setup has not run reaches the
\* write to the nil map and crashes, with nothing stored.
C29_MapWrittenOnlyAfterSetup ==
    [][/\ errorCounts' # errorCounts => errorCounts'.made
       /\ phase' = "Ready" => errorCounts'.made
       /\ \A m \in DOMAIN failCalls' :
             FailedNow(m) =>
                /\ errorCounts.made => (phase' = phase /\ MapGet(errorCounts'.m, m) > 0)
                /\ ~errorCounts.made =>
                      /\ attempts = << >>
                      /\ phase' = "Crashed"
                      /\ errorCounts' = errorCounts
       /\ phase' = "Crashed" => (phase = "Crashed" \/ ~errorCounts.made)]_vars

C29_Witness ==
    /\ phase = "Crashed"
    /\ ~errorCounts.made
    /\ attempts = << >>
    /\ Len(emitted) = 1
    /\ FailedCalls = 1
    /\ ErrorCounter = 1
    /\ \E m \in DOMAIN errLogs : Len(errLogs[m]) = 1

=============================================================================
